---- MODULE Spec2Model ----
(***************************************************************************)
(* Model of the async-state-machine demo:                                  *)
(*   src/src/lib.rs              poll_once, AsyncStateMachine, test future  *)
(*   src/examples/serializer.rs  AsyncSerializer (future + byte register)   *)
(*                               and SyncSerializer (explicit state enum)   *)
(* Positions and indices are 0-based as in the source; a TLA+ sequence s    *)
(* holds source element j at s[j+1].                                        *)
(***************************************************************************)
EXTENDS Integers, Sequences, FiniteSets, TLC

VARIABLES
    who,        \* which object the caller drives in this behaviour
    objects,    \* the &[Object] both serializers are built from
    fut,        \* AsyncSerializer.fut: the polling_serializer future
    reg,        \* AsyncSerializer.reg: the shared RefCell<u8>
    aLast,      \* record of the last AsyncSerializer::read call
    aOut,       \* all bytes AsyncSerializer::read calls have returned so far
    aDone,      \* some read call has observed Some(_) from poll_once
    state,      \* SyncSerializer.state
    idx,        \* SyncSerializer.idx
    sLast,      \* record of the last SyncSerializer::read call
    sOut,       \* all bytes SyncSerializer::read calls have returned so far
    panicked,   \* the process has panicked ("none" while it runs)
    bufLen,     \* main: buf.len() of the drain loops
    untilZero,  \* drain loops: stop at the first 0 return instead of the first short one
    pc,         \* main: position in main()
    buf,        \* main: the reused chunk buffer
    tfut,       \* lib.rs test: the future of test_poll_once
    tK,         \* lib.rs test: number of suspensions before the future returns
    tResults,   \* lib.rs test: results of the successive poll_once calls
    stepLast,   \* record of the last single poll_once step on the serializer future
    init_cmd,   \* callback_io: SharedData.init_cmd
    running,    \* callback_io: SharedData.running
    sensor_data,\* callback_io: SharedData.sensor_data
    db_value,   \* callback_io: Database.value
    task,       \* callback_io: CallbackDrivenModule.fsm, the task future
    runLast,    \* callback_io: record of the last run call
    seen        \* callback_io: what has happened so far (history)

vars == << who, objects, fut, reg, aLast, aOut, aDone, state, idx, sLast, sOut,
           panicked, bufLen, untilZero, pc, buf,
           tfut, tK, tResults, stepLast,
           init_cmd, running, sensor_data, db_value, task, runLast, seen >>

(***************************************************************************)
(* Bounds of the model                                                     *)
(***************************************************************************)
\* longest object list (besides the list of main)
MaxObjs == 2
\* longest data block of a generated object
MaxData == 2
\* largest buffer a caller passes to read
MaxBuf == 3
\* largest chunk buffer of the drain loops of main
MaxChunk == 7
\* largest number of suspensions of the test future
MaxK == 3
\* callback_io: longest single sleep between two calls, in ticks of 100 ms
MaxSleep == 2
\* callback_io: most ticks the caller lets the sampling deadline lie in the past
MaxLag == 2

(***************************************************************************)
(* Objects                                                                 *)
(***************************************************************************)

\* data blocks 1,2,..,n as in main: the bytes of a block are pairwise distinct
Iota(n) == [j \in 1..n |-> j]

Object(t, d) == [object_type |-> t, data |-> d]

\* object types of the generated objects
TypeVals == {0, 7}

Objects == { Object(t, Iota(n)) : t \in TypeVals, n \in 0..MaxData }

RECURSIVE ListsUpTo(_)
ListsUpTo(n) ==
    IF n = 0 THEN { << >> }
    ELSE LET shorter == ListsUpTo(n - 1)
         IN  shorter \cup { Append(l, o) : l \in { s \in shorter : Len(s) = n - 1 }, o \in Objects }

\* the sample data of main
MainObjects == << Object(0, Iota(4)), Object(1, Iota(8)) >>

ObjectLists == ListsUpTo(MaxObjs) \cup { MainObjects }

\* [v; n]: an array of n copies of v
Filled(n, v) == [j \in 1..n |-> v]

(***************************************************************************)
(* Encoding helpers                                                        *)
(***************************************************************************)

\* `as u16`
as_u16(n) == n % 65536

\* u16::to_le_bytes
to_le_bytes(v) == << v % 256, (v \div 256) % 256 >>

\* the record format: [low byte of len(data)+1, high byte of len(data)+1, type, data...]
EncodeObject(o) ==
    << (Len(o.data) + 1) % 256, ((Len(o.data) + 1) \div 256) % 256, o.object_type >> \o o.data

RECURSIVE Encode(_)
Encode(objs) ==
    IF objs = << >> THEN << >>
    ELSE EncodeObject(Head(objs)) \o Encode(Tail(objs))

(***************************************************************************)
(* The polling_serializer future                                           *)
(*   pc = "Unresumed"  created, never polled                               *)
(*   pc = "Suspended"  parked at the pending!() of write_bytes, inside the *)
(*                     ph-th write_bytes call (0 length, 1 type, 2 data)   *)
(*                     for objects[k], after writing src[i]                *)
(*   pc = "Returned"   completed                                           *)
(***************************************************************************)
Fut(p, k, ph, i) == [pc |-> p, k |-> k, ph |-> ph, i |-> i]

\* the value () of a future with Output = ()
Unit == "unit"

\* Option<T>
Some(v) == [some |-> TRUE, value |-> v]
None == [some |-> FALSE, value |-> Unit]

FutInit == Fut("Unresumed", 0, 0, 0)

\* mutant: the length field leaves out the byte of the object type
write_src_len_without_type(obj, ph) ==
    CASE ph = 0 -> to_le_bytes(as_u16(Len(obj.data)))
      [] ph = 1 -> << obj.object_type >>
      [] OTHER  -> obj.data

\* the slice polling_serializer passes to its ph-th write_bytes call for obj
write_src(obj, ph) ==
    CASE ph = 0 -> to_le_bytes(as_u16(Len(obj.data) + 1))
      [] ph = 1 -> << obj.object_type >>
      [] OTHER  -> obj.data

\* mutant: the byte of the object type is written without yielding
pending_after_write_type_missing(ph) == ph # 1

\* write_bytes: the pending!() that follows write_fn(src[i])
pending_after_write(ph) == TRUE

\* write_bytes inlined in the loop of polling_serializer: control is at the
\* head of `for i in 0..src.len()` of the ph-th write_bytes call for
\* objects[k]; w collects the bytes passed to write_fn during this poll.
RECURSIVE write_bytes(_, _, _, _, _)
write_bytes(objs, k, ph, i, w) ==
    IF k >= Len(objs)
    THEN [fut |-> Fut("Returned", 0, 0, 0), ready |-> TRUE, value |-> Unit,
          w |-> w, panic |-> "none"]
    ELSE LET src == write_src(objs[k + 1], ph)
         IN  IF i < Len(src)
             THEN IF pending_after_write(ph)
                  THEN [fut |-> Fut("Suspended", k, ph, i), ready |-> FALSE, value |-> Unit,
                        w |-> Append(w, src[i + 1]), panic |-> "none"]
                  ELSE write_bytes(objs, k, ph, i + 1, Append(w, src[i + 1]))
             ELSE IF ph < 2
                  THEN write_bytes(objs, k, ph + 1, 0, w)
                  ELSE write_bytes(objs, k + 1, 0, 0, w)

\* Future::poll of the polling_serializer future f. Polling the future of an
\* async fn after it has returned panics ("`async fn` resumed after completion").
polling_serializer(objs, f) ==
    CASE f.pc = "Unresumed" -> write_bytes(objs, 0, 0, 0, << >>)
      [] f.pc = "Suspended" -> write_bytes(objs, f.k, f.ph, f.i + 1, << >>)
      [] OTHER -> [fut |-> f, ready |-> FALSE, value |-> Unit, w |-> << >>,
                   panic |-> "resumed_after_completion"]

\* poll_once, applied to the outcome p of f.poll(cx)
poll_once(p) ==
    [fut |-> p.fut, w |-> p.w, panic |-> p.panic,
     result |-> IF p.ready THEN Some(p.value) ELSE None]

\* mutant: the closure leaves the register alone
write_fn_keeps_old(r, w) == r

\* the closure |b| *reg.borrow_mut() = b, applied to the bytes w in order
RECURSIVE write_fn(_, _)
write_fn(r, w) == IF w = << >> THEN r ELSE write_fn(Head(w), Tail(w))

(***************************************************************************)
(* AsyncSerializer::read                                                   *)
(***************************************************************************)

\* what a read call did besides returning: polls, buffer stores (positions in
\* order), most register writes seen in one poll, whether Some(_) was seen
NoTrace == [polls |-> 0, stores |-> << >>, maxw |-> 0, done |-> FALSE]

Max(a, b) == IF a >= b THEN a ELSE b
Min(a, b) == IF a <= b THEN a ELSE b

ReadResult(f, r, b, ret, pan, tr) ==
    [fut |-> f, reg |-> r, buf |-> b, ret |-> ret, panic |-> pan, tr |-> tr]

\* mutant: off by one in the buffer-full test
async_buf_full_off_by_one(pos, b) == pos > Len(b)

\* `if pos >= buf.len()`
async_buf_full(pos, b) == pos >= Len(b)

RECURSIVE AsyncSerializer_read_loop(_, _, _, _, _, _)
AsyncSerializer_read_loop(objs, f, r, b, pos, tr) ==
    IF async_buf_full(pos, b) THEN ReadResult(f, r, b, pos, "none", tr)
    ELSE LET p   == poll_once(polling_serializer(objs, f))
             r2  == write_fn(r, p.w)
             tr2 == [tr EXCEPT !.polls = @ + 1, !.maxw = Max(@, Len(p.w))]
         IN  IF p.panic # "none" THEN ReadResult(f, r, b, pos, p.panic, tr2)
             ELSE IF p.result.some
             THEN ReadResult(p.fut, r2, b, pos, "none", [tr2 EXCEPT !.done = TRUE])
             ELSE LET tr3 == [tr2 EXCEPT !.stores = Append(@, pos)]
                  IN  IF pos >= Len(b)
                      THEN ReadResult(p.fut, r2, b, pos, "index_out_of_bounds", tr3)
                      ELSE AsyncSerializer_read_loop(objs, p.fut, r2,
                               [b EXCEPT ![pos + 1] = r2], pos + 1, tr3)

\* mutant: the future is polled before the buffer-full test, so the byte of
\* the poll that finds the buffer full is dropped
RECURSIVE AsyncSerializer_read_poll_first_loop(_, _, _, _, _, _)
AsyncSerializer_read_poll_first_loop(objs, f, r, b, pos, tr) ==
    LET p   == poll_once(polling_serializer(objs, f))
        r2  == write_fn(r, p.w)
        tr2 == [tr EXCEPT !.polls = @ + 1, !.maxw = Max(@, Len(p.w))]
    IN  IF p.panic # "none" THEN ReadResult(f, r, b, pos, p.panic, tr2)
        ELSE IF p.result.some
        THEN ReadResult(p.fut, r2, b, pos, "none", [tr2 EXCEPT !.done = TRUE])
        ELSE IF pos >= Len(b) THEN ReadResult(p.fut, r2, b, pos, "none", tr2)
        ELSE AsyncSerializer_read_poll_first_loop(objs, p.fut, r2,
                 [b EXCEPT ![pos + 1] = r2], pos + 1,
                 [tr2 EXCEPT !.stores = Append(@, pos)])

AsyncSerializer_read_poll_first(objs, f, r, b) ==
    AsyncSerializer_read_poll_first_loop(objs, f, r, b, 0, NoTrace)

\* AsyncSerializer::read(&mut self, buf): `let mut pos = 0; loop { .. }`
AsyncSerializer_read(objs, f, r, b) ==
    AsyncSerializer_read_loop(objs, f, r, b, 0, NoTrace)

(***************************************************************************)
(* SyncSerializer                                                          *)
(***************************************************************************)
St(tag, offset) == [tag |-> tag, offset |-> offset]

\* State::new
State_new == St("Len1", 0)

SyncByte(byte, st, i, pan) == [byte |-> byte, state |-> st, idx |-> i, panic |-> pan]

\* State::Len1 => { .. }
match_Len1(obj, st, i) ==
    SyncByte(to_le_bytes(as_u16(Len(obj.data) + 1))[1], St("Len2", 0), i, "none")

\* mutant: the second length byte repeats the first
match_Len2_low_byte_again(obj, st, i) ==
    SyncByte(to_le_bytes(as_u16(Len(obj.data) + 1))[1], St("Type", 0), i, "none")

\* State::Len2 => { .. }
match_Len2(obj, st, i) ==
    SyncByte(to_le_bytes(as_u16(Len(obj.data) + 1))[2], St("Type", 0), i, "none")

\* mutant: the data block is entered without testing that it has a byte
match_Type_data_unchecked(obj, st, i) ==
    SyncByte(obj.object_type, St("Data", 0), i, "none")

\* State::Type => { .. }
match_Type(obj, st, i) ==
    IF Len(obj.data) > 0
    THEN SyncByte(obj.object_type, St("Data", 0), i, "none")
    ELSE SyncByte(obj.object_type, St("Len1", 0), i + 1, "none")

\* mutant: off by one in the end-of-data test
match_Data_end_off_by_one(obj, st, i) ==
    IF st.offset >= Len(obj.data)
    THEN SyncByte(0, st, i, "index_out_of_bounds")
    ELSE IF st.offset >= Len(obj.data)
         THEN SyncByte(obj.data[st.offset + 1], St("Len1", 0), i + 1, "none")
         ELSE SyncByte(obj.data[st.offset + 1], St("Data", st.offset + 1), i, "none")

\* State::Data(offset) => { .. }; obj.data[offset] panics when out of range
match_Data(obj, st, i) ==
    IF st.offset >= Len(obj.data)
    THEN SyncByte(0, st, i, "index_out_of_bounds")
    ELSE IF st.offset >= Len(obj.data) - 1
         THEN SyncByte(obj.data[st.offset + 1], St("Len1", 0), i + 1, "none")
         ELSE SyncByte(obj.data[st.offset + 1], St("Data", st.offset + 1), i, "none")

\* the body of `self.state = match self.state { .. }` for obj = objects[idx]:
\* the byte stored into buf[pos], the next state and the next idx
SyncSerializer_match(obj, st, i) ==
    CASE st.tag = "Len1" -> match_Len1(obj, st, i)
      [] st.tag = "Len2" -> match_Len2(obj, st, i)
      [] st.tag = "Type" -> match_Type(obj, st, i)
      [] OTHER -> match_Data(obj, st, i)

SyncResult(st, i, b, ret, pan, tr) ==
    [state |-> st, idx |-> i, buf |-> b, ret |-> ret, panic |-> pan, tr |-> tr]

\* mutant: off by one in the end-of-objects test
sync_exhausted_off_by_one(i, objs) == i > Len(objs)

\* `if self.idx >= self.objects.len()`
sync_exhausted(i, objs) == i >= Len(objs)

\* mutant: off by one in the buffer-full test
sync_buf_full_off_by_one(pos, b) == pos > Len(b)

\* `if pos >= buf.len()`
sync_buf_full(pos, b) == pos >= Len(b)

RECURSIVE SyncSerializer_read_loop(_, _, _, _, _, _)
SyncSerializer_read_loop(objs, st, i, b, pos, tr) ==
    IF sync_buf_full(pos, b) THEN SyncResult(st, i, b, pos, "none", tr)
    ELSE IF sync_exhausted(i, objs) THEN SyncResult(st, i, b, pos, "none", tr)
    ELSE IF i >= Len(objs) THEN SyncResult(st, i, b, pos, "index_out_of_bounds", tr)
    ELSE LET m   == SyncSerializer_match(objs[i + 1], st, i)
             tr2 == [tr EXCEPT !.stores = Append(@, pos)]
         IN  IF m.panic # "none" THEN SyncResult(st, i, b, pos, m.panic, tr)
             ELSE IF pos >= Len(b) THEN SyncResult(st, i, b, pos, "index_out_of_bounds", tr2)
             ELSE SyncSerializer_read_loop(objs, m.state, m.idx,
                      [b EXCEPT ![pos + 1] = m.byte], pos + 1, tr2)

\* mutant: the state tag is reset at the start of every call
SyncSerializer_read_state_reset(objs, st, i, b) ==
    SyncSerializer_read_loop(objs, State_new, i, b, 0, NoTrace)

\* SyncSerializer::read(&mut self, buf): `let mut pos = 0; loop { .. }`
SyncSerializer_read(objs, st, i, b) ==
    SyncSerializer_read_loop(objs, st, i, b, 0, NoTrace)

(***************************************************************************)
(* The future of test_poll_once (lib.rs), with the number of suspensions   *)
(* before it returns as a parameter k (the test has k = 2)                 *)
(***************************************************************************)
\* the `i == 2` of the test
TestK == 2
\* the `return 42` of the test
TestValue == 42

TFut(p, i) == [pc |-> p, i |-> i]

\* `loop { if i == k { return 42 } else { i += 1; pending!() } }` entered with i
test_future_loop(k, i) ==
    IF i = k
    THEN [fut |-> TFut("Returned", i), ready |-> TRUE, value |-> TestValue,
          w |-> << >>, panic |-> "none"]
    ELSE [fut |-> TFut("Suspended", i + 1), ready |-> FALSE, value |-> Unit,
          w |-> << >>, panic |-> "none"]

\* mutant: a resumed future starts its body again (i is lost over a suspension)
test_future_restarts(k, f) ==
    CASE f.pc = "Returned" -> [fut |-> f, ready |-> FALSE, value |-> Unit, w |-> << >>,
                               panic |-> "resumed_after_completion"]
      [] OTHER -> test_future_loop(k, 0)

\* Future::poll of the async block of test_poll_once
test_future(k, f) ==
    CASE f.pc = "Unresumed" -> test_future_loop(k, 0)
      [] f.pc = "Suspended" -> test_future_loop(k, f.i)
      [] OTHER -> [fut |-> f, ready |-> FALSE, value |-> Unit, w |-> << >>,
                   panic |-> "resumed_after_completion"]

(***************************************************************************)
(* callback_io.rs: CallbackDrivenModule and its task future.               *)
(* Time is counted in ticks of 100 ms. The future holds its deadlines      *)
(* relative to Instant::now(): done_in = done_time - now (0 once reached), *)
(* next_in = next_data_time - now.                                         *)
(*   pc = "Unresumed"   created, never polled                              *)
(*   pc = "WaitEnable"  parked at the pending!() of `while !init_cmd`      *)
(*   pc = "DoInit"      parked at the pending!() of do_init                *)
(*   pc = "Sampling"    parked at the pending!() of `while init_cmd`       *)
(*   pc = "Returned"    completed                                          *)
(***************************************************************************)
\* do_init: Duration::from_secs(1), in ticks
DoInitTicks == 10
\* task: SENSOR_PERIOD = Duration::from_millis(100), in ticks
SensorPeriodTicks == 1
\* task: the sample stored, Some(42)
SensorValue == 42

Task(p, done_in, next_in) == [pc |-> p, done_in |-> done_in, next_in |-> next_in]

SharedData(ic, r, sd) == [init_cmd |-> ic, running |-> r, sensor_data |-> sd]

\* SharedData::default
SharedData_default == SharedData(FALSE, FALSE, None)

TaskPoll(t, rdy, d, rs, pan) ==
    [fut |-> t, ready |-> rdy, value |-> Unit, w |-> << >>, panic |-> pan,
     data |-> d, rs |-> rs]

\* mutant: the comparison with the sampling deadline is reversed
sample_due_reversed(next_in) == next_in >= 0

\* task: `Instant::now() >= next_data_time`
sample_due(next_in) == next_in <= 0

\* task, from the head of `while data.init_cmd.load()`; rs are the values
\* stored into data.running so far during this poll
task_sampling(next_in, d, rs) ==
    IF d.init_cmd
    THEN IF sample_due(next_in)
         THEN TaskPoll(Task("Sampling", 0, next_in + SensorPeriodTicks), FALSE,
                       [d EXCEPT !.sensor_data = Some(SensorValue)], rs, "none")
         ELSE TaskPoll(Task("Sampling", 0, next_in), FALSE, d, rs, "none")
    ELSE TaskPoll(Task("Returned", 0, 0), TRUE,
                  [d EXCEPT !.running = FALSE], Append(rs, FALSE), "none")

\* mutant: the comparison with done_time is reversed
do_init_done_reversed(done_in) == done_in >= 0

\* do_init: `Instant::now() >= done_time`
do_init_done(done_in) == done_in <= 0

\* do_init, from the head of its loop, and what follows it in task
do_init(done_in, d) ==
    IF do_init_done(done_in)
    THEN task_sampling(SensorPeriodTicks, [d EXCEPT !.running = TRUE], << TRUE >>)
    ELSE TaskPoll(Task("DoInit", done_in, 0), FALSE, d, << >>, "none")

\* task, from the head of `while !data.init_cmd.load()`
task_wait(d) ==
    IF ~d.init_cmd
    THEN TaskPoll(Task("WaitEnable", 0, 0), FALSE, d, << >>, "none")
    ELSE do_init(DoInitTicks, d)

\* Future::poll of the task future t with the shared data d
task_poll(t, d) ==
    CASE t.pc \in {"Unresumed", "WaitEnable"} -> task_wait(d)
      [] t.pc = "DoInit" -> do_init(t.done_in, d)
      [] t.pc = "Sampling" -> task_sampling(t.next_in, d, << >>)
      [] OTHER -> TaskPoll(t, FALSE, d, << >>, "resumed_after_completion")

\* mutant: the sample is read without clearing the slot
take_without_clearing(slot) == [value |-> slot, slot |-> slot]

\* AtomicCell::take on sensor_data
take(slot) == [value |-> slot, slot |-> None]

\* no run call yet
NoRun ==
    [called |-> FALSE, returned |-> FALSE, polls |-> 0, sample |-> None,
     dbBefore |-> 0, taskBefore |-> "Unresumed"]

\* nothing has happened yet
SeenNothing ==
    [observed |-> FALSE, elapsed |-> 0, everRunning |-> FALSE,
     phases |-> << "Unresumed" >>]

\* CallbackDrivenModule::new and Database::default
TickConstructed ==
    /\ init_cmd = SharedData_default.init_cmd
    /\ running = SharedData_default.running
    /\ sensor_data = SharedData_default.sensor_data
    /\ db_value = 0
    /\ task = Task("Unresumed", 0, 0)
    /\ runLast = NoRun
    /\ seen = SeenNothing

tickVars == << init_cmd, running, sensor_data, db_value, task, runLast, seen >>

(***************************************************************************)
(* State after construction                                                *)
(***************************************************************************)
\* no read call yet
NoCall ==
    [called |-> FALSE, len |-> 0, ret |-> 0, returned |-> FALSE, tr |-> NoTrace,
     exhaustedBefore |-> FALSE, pre |-> << >>, preBuf |-> << >>, buf |-> << >>]

\* no step yet
NoStep == [called |-> FALSE, returned |-> FALSE, result |-> None, w |-> << >>, n |-> 0,
           written |-> << >>]

\* serialize_objects (RefCell::new(0u8), the pinned future, AsyncSerializer::new),
\* SyncSerializer::new, and the pinned async block of test_poll_once
Constructed(objs) ==
    /\ objects = objs
    /\ fut = FutInit
    /\ reg = 0
    /\ aLast = NoCall
    /\ aOut = << >>
    /\ aDone = FALSE
    /\ state = State_new
    /\ idx = 0
    /\ sLast = NoCall
    /\ sOut = << >>
    /\ panicked = "none"
    /\ tfut = TFut("Unresumed", 0)
    /\ tResults = << >>
    /\ stepLast = NoStep
    /\ TickConstructed

(***************************************************************************)
(* One read call on each serializer, with the caller's buffer b            *)
(***************************************************************************)
AsyncReadCall(b) ==
    /\ panicked = "none"
    /\ LET r == AsyncSerializer_read(objects, fut, reg, b)
       IN  /\ fut' = r.fut
           /\ reg' = r.reg
           /\ panicked' = r.panic
           /\ aLast' = [called |-> TRUE, len |-> Len(b), ret |-> r.ret,
                        returned |-> (r.panic = "none"), tr |-> r.tr,
                        exhaustedBefore |-> aDone, pre |-> << fut, reg >>,
                        preBuf |-> b, buf |-> r.buf]
           /\ aOut' = IF r.panic = "none" THEN aOut \o SubSeq(r.buf, 1, r.ret) ELSE aOut
           /\ aDone' = (aDone \/ r.tr.done)

SyncReadCall(b) ==
    /\ panicked = "none"
    /\ LET r == SyncSerializer_read(objects, state, idx, b)
       IN  /\ state' = r.state
           /\ idx' = r.idx
           /\ panicked' = r.panic
           /\ sLast' = [called |-> TRUE, len |-> Len(b), ret |-> r.ret,
                        returned |-> (r.panic = "none"), tr |-> r.tr,
                        exhaustedBefore |-> (idx = Len(objects)), pre |-> << state, idx >>,
                        preBuf |-> b, buf |-> r.buf]
           /\ sOut' = IF r.panic = "none" THEN sOut \o SubSeq(r.buf, 1, r.ret) ELSE sOut

asyncVars == << fut, reg, aLast, aOut, aDone >>
syncVars == << state, idx, sLast, sOut >>
mainVars == << bufLen, untilZero, pc, buf >>
testVars == << tfut, tK, tResults, stepLast >>

(***************************************************************************)
(* Spec: a caller holding one of the two serializers calls read any number *)
(* of times, each time with a zeroed buffer of any length 0..MaxBuf        *)
(***************************************************************************)
Init ==
    /\ who \in {"async", "sync"}
    /\ \E objs \in ObjectLists : Constructed(objs)
    /\ bufLen = 0 /\ untilZero = FALSE /\ pc = "caller" /\ buf = << >>
    /\ tK = 0

AsyncRead ==
    /\ who = "async"
    /\ \E n \in 0..MaxBuf : AsyncReadCall(Filled(n, 0))
    /\ UNCHANGED << who, objects, syncVars, mainVars, testVars, tickVars >>

SyncRead ==
    /\ who = "sync"
    /\ \E n \in 0..MaxBuf : SyncReadCall(Filled(n, 0))
    /\ UNCHANGED << who, objects, asyncVars, mainVars, testVars, tickVars >>

Next == AsyncRead \/ SyncRead

Spec == Init /\ [][Next]_vars

(***************************************************************************)
(* SpecMain: main() of serializer.rs, for every object list and every      *)
(* chunk buffer length 1..MaxChunk (main has the two-object list and 3).     *)
(* SpecUntilZero: the same drain loops, left at the first read returning 0 *)
(* instead of the first short one.                                         *)
(***************************************************************************)
\* the output main asserts for its sample data
MainExpected == << 5, 0, 0, 1, 2, 3, 4, 9, 0, 1, 1, 2, 3, 4, 5, 6, 7, 8 >>

\* mutant: the loop is left on a full buffer instead of a short one
loop_break_reversed(write_size, len) == write_size >= len

\* `if write_size < buf.len() { break; }`
loop_break(write_size, len) ==
    IF untilZero THEN write_size = 0 ELSE write_size < len

InitDrain(z) ==
    /\ who = "main"
    /\ \E objs \in ObjectLists : Constructed(objs)
    /\ bufLen \in 1..MaxChunk
    /\ untilZero = z
    /\ pc = "async_loop"
    /\ buf = Filled(bufLen, 0)
    /\ tK = 0

\* one turn of the loop in the closure passed to serialize_objects
MainAsyncIter ==
    /\ pc = "async_loop"
    /\ AsyncReadCall(buf)
    /\ IF panicked' = "none" /\ loop_break(aLast'.ret, Len(buf))
       THEN pc' = "sync_loop" /\ buf' = Filled(bufLen, 0)
       ELSE pc' = pc /\ buf' = aLast'.buf
    /\ UNCHANGED << who, objects, syncVars, bufLen, untilZero, testVars, tickVars >>

\* one turn of the loop over sync_serializer.read
MainSyncIter ==
    /\ pc = "sync_loop"
    /\ SyncReadCall(buf)
    /\ IF panicked' = "none" /\ loop_break(sLast'.ret, Len(buf))
       THEN pc' = "asserts" /\ buf' = sLast'.buf
       ELSE pc' = pc /\ buf' = sLast'.buf
    /\ UNCHANGED << who, objects, asyncVars, bufLen, untilZero, testVars, tickVars >>

\* the two assert_eq! that end main
MainAsserts ==
    /\ pc = "asserts"
    /\ panicked = "none"
    /\ pc' = "done"
    /\ panicked' = IF \/ (objects = MainObjects /\ aOut # MainExpected)
                      \/ sOut # aOut
                   THEN "assertion_failed" ELSE "none"
    /\ UNCHANGED << who, objects, asyncVars, syncVars, bufLen, untilZero, buf, testVars, tickVars >>

NextMain == MainAsyncIter \/ MainSyncIter \/ MainAsserts

InitMain == InitDrain(FALSE)
SpecMain == InitMain /\ [][NextMain]_vars

InitUntilZero == InitDrain(TRUE)
SpecUntilZero == InitUntilZero /\ [][NextMain]_vars

(***************************************************************************)
(* SpecStep: single steps. AsyncStateMachine::exec / poll_once on the      *)
(* polling_serializer future, and on the future of test_poll_once.         *)
(***************************************************************************)
InitStep ==
    /\ \/ who = "serializer" /\ tK = TestK /\ \E objs \in ObjectLists : Constructed(objs)
       \/ who = "test" /\ tK \in 0..MaxK /\ Constructed(MainObjects)
    /\ bufLen = 0 /\ untilZero = FALSE /\ pc = "caller" /\ buf = << >>

\* AsyncStateMachine::exec on the serializer future, and what its driver does
\* with the outcome: on None, `buf[pos] = *self.reg.borrow()`
StepSerializer ==
    /\ who = "serializer"
    /\ panicked = "none"
    /\ LET p == poll_once(polling_serializer(objects, fut))
       IN  /\ fut' = p.fut
           /\ reg' = write_fn(reg, p.w)
           /\ panicked' = p.panic
           /\ aOut' = IF p.panic = "none" /\ ~p.result.some
                      THEN Append(aOut, write_fn(reg, p.w)) ELSE aOut
           /\ stepLast' = [called |-> TRUE, returned |-> (p.panic = "none"),
                           result |-> p.result, w |-> p.w, n |-> stepLast.n + 1,
                           written |-> stepLast.written \o p.w]
    /\ UNCHANGED << who, objects, aLast, aDone, syncVars, mainVars,
                    tfut, tK, tResults, tickVars >>

\* one poll_once call of test_poll_once
StepTest ==
    /\ who = "test"
    /\ panicked = "none"
    /\ Len(tResults) <= MaxK + 1
    /\ LET p == poll_once(test_future(tK, tfut))
       IN  /\ tfut' = p.fut
           /\ panicked' = p.panic
           /\ tResults' = IF p.panic = "none" THEN Append(tResults, p.result)
                          ELSE tResults
    /\ UNCHANGED << who, objects, asyncVars, syncVars, mainVars, tK, stepLast, tickVars >>

NextStep == StepSerializer \/ StepTest

SpecStep == InitStep /\ [][NextStep]_vars

(***************************************************************************)
(* Claims                                                                  *)
(***************************************************************************)
\* number of bytes of the whole stream: len(data) + 3 for every object
RECURSIVE StreamLen(_)
StreamLen(objs) ==
    IF objs = << >> THEN 0 ELSE Len(Head(objs).data) + 3 + StreamLen(Tail(objs))

AsyncLoopLeft == pc \in {"sync_loop", "asserts", "done"}
SyncLoopLeft == pc \in {"asserts", "done"}

\* C1 (as claimed): with both serializers read with a buffer of one fixed size
\* >= 1 until each reports 0, both drains end (nothing panics) and the
\* concatenated outputs are byte-for-byte equal.
C1_EqualOutputUntilZero ==
    /\ panicked = "none"
    /\ SyncLoopLeft => aOut = sOut

\* C2 (as claimed): once a read call of AsyncSerializer has observed Some(_),
\* every later read call with a non-empty buffer returns 0 and does not poll
\* the completed future.
C2_NoPollAfterDone ==
    (aLast.called /\ aLast.exhaustedBefore /\ aLast.len > 0)
        => (aLast.returned /\ aLast.ret = 0 /\ aLast.tr.polls = 0)

\* C3: once idx = objects.len(), a SyncSerializer::read call with a non-empty
\* buffer returns 0, stores nothing into the buffer and leaves idx and state
\* as they were.
C3_SyncExhaustedReadIsNoop ==
    (sLast.called /\ sLast.exhaustedBefore /\ sLast.len > 0)
        => /\ sLast.returned
           /\ sLast.ret = 0
           /\ sLast.tr.stores = << >>
           /\ sLast.buf = sLast.preBuf
           /\ << state, idx >> = sLast.pre

C3_Witness ==
    /\ sLast.called /\ sLast.exhaustedBefore /\ sLast.len > 0
    /\ Len(sOut) > 0

\* C4: the bytes AsyncSerializer returns up to the first short read are the
\* concatenation, over the objects in order, of
\* [low byte of len(data)+1, high byte of len(data)+1, type, data...];
\* for the two objects of main that is [5,0,0,1,2,3,4,9,0,1,1,2,3,4,5,6,7,8].
C4_AsyncStreamFormat ==
    AsyncLoopLeft =>
        /\ aOut = Encode(objects)
        /\ objects = MainObjects => aOut = MainExpected

C4_Witness ==
    /\ pc = "done" /\ panicked = "none"
    /\ objects = MainObjects /\ bufLen = 3
    /\ aOut = MainExpected

\* one read into a buffer large enough for the whole stream, on a freshly
\* constructed serializer
WholeBuf == Filled(StreamLen(objects) + 1, 0)
AsyncOneShot ==
    LET r == AsyncSerializer_read(objects, FutInit, 0, WholeBuf)
    IN  SubSeq(r.buf, 1, r.ret)
SyncOneShot ==
    LET r == SyncSerializer_read(objects, State_new, 0, WholeBuf)
    IN  SubSeq(r.buf, 1, r.ret)

\* C5: drained with a fixed buffer size until the first short read, each
\* serializer yields, for every buffer size, the bytes it yields in one read
\* into a buffer that holds the whole stream.
C5_ChunkSizeIndependent ==
    /\ AsyncLoopLeft => aOut = AsyncOneShot
    /\ SyncLoopLeft => sOut = SyncOneShot

C5_Witness ==
    /\ pc = "done" /\ panicked = "none"
    /\ bufLen = 1 /\ Len(objects) = 2
    /\ Len(aOut) > 6 /\ Len(sOut) > 6

\* what C6 says of one read call l
ReadFrame(l) ==
    l.called =>
        /\ l.tr.stores = [j \in 1..Len(l.tr.stores) |-> j - 1]
        /\ Len(l.tr.stores) <= l.len
        /\ l.returned =>
              /\ 0 <= l.ret /\ l.ret <= l.len
              /\ Len(l.tr.stores) = l.ret
              /\ Len(l.buf) = l.len
              /\ \A j \in (l.ret + 1)..l.len : l.buf[j] = l.preBuf[j]

\* C6: every read call on either serializer returns n with 0 <= n <= buf.len(),
\* has stored into exactly the positions 0..n-1, each once and in increasing
\* order, and leaves the positions n..buf.len()-1 as they were.
C6_ReadFrame == ReadFrame(aLast) /\ ReadFrame(sLast)

C6_Witness ==
    /\ aLast.called /\ aLast.returned
    /\ 0 < aLast.ret /\ aLast.ret < aLast.len
    /\ aLast.tr.stores = [j \in 1..aLast.ret |-> j - 1]

\* C7: a read call with a zero-length buffer returns 0, does not poll the
\* future (AsyncSerializer) and leaves the serializer as it was, in whatever
\* state the serializer is, the completed one included.
C7_ZeroLengthRead ==
    /\ (aLast.called /\ aLast.len = 0)
          => /\ aLast.returned /\ aLast.ret = 0
             /\ aLast.tr.polls = 0
             /\ << fut, reg >> = aLast.pre
    /\ (sLast.called /\ sLast.len = 0)
          => /\ sLast.returned /\ sLast.ret = 0
             /\ << state, idx >> = sLast.pre

C7_Witness ==
    /\ aLast.called /\ aLast.len = 0
    /\ fut.pc = "Returned" /\ Len(aOut) > 0

\* what C8 says of one read call l that left out as the output so far
ShortOnlyAtEnd(l, out, exhausted) ==
    (l.called /\ l.returned /\ l.len > 0) =>
        /\ l.ret < l.len => (exhausted /\ out = Encode(objects))
        /\ l.ret = Min(l.len, StreamLen(objects) - (Len(out) - l.ret))

\* C8: a read call with a non-empty buffer returns less than buf.len() only
\* when the serializer is exhausted (Some(_) seen in that call / idx at the
\* end) and every byte of the stream has been returned; while bytes remain
\* the buffer is filled completely.
C8_ShortOnlyWhenExhausted ==
    /\ ShortOnlyAtEnd(aLast, aOut, aLast.tr.done /\ fut.pc = "Returned")
    /\ ShortOnlyAtEnd(sLast, sOut, idx = Len(objects))

C8_Witness ==
    /\ sLast.called /\ sLast.returned
    /\ 0 < sLast.ret /\ sLast.ret < sLast.len
    /\ Len(sOut) > sLast.ret

\* C9: a future with k suspension points and final value v gives None on each
\* of the first k steps and Some(v) on step k+1, every step resuming where
\* the previous one stopped: the test future (k = tK, v = 42) and the
\* serializer future (k = number of bytes of the stream, v = ()).
C9_PendingKTimesThenDone ==
    /\ who = "test" =>
          /\ Len(tResults) <= tK + 1
          /\ \A j \in 1..Len(tResults) :
                tResults[j] = IF j <= tK THEN None ELSE Some(TestValue)
          /\ tfut.i = Min(Len(tResults), tK)
          /\ (tfut.pc = "Returned") = (Len(tResults) = tK + 1)
    /\ (who = "serializer" /\ stepLast.called /\ stepLast.returned) =>
          stepLast.result = IF stepLast.n <= StreamLen(objects) THEN None ELSE Some(Unit)

C9_Witness ==
    /\ who = "test" /\ tK = TestK
    /\ tResults = << None, None, Some(TestValue) >>

\* C10: every step of the serializer future writes the byte register at most
\* once: exactly once when the step returns None (Pending), not at all when
\* it returns Some (Done).
C10_OneWritePerStep ==
    stepLast.called =>
        /\ Len(stepLast.w) <= 1
        /\ (stepLast.returned /\ ~stepLast.result.some) => Len(stepLast.w) = 1
        /\ (stepLast.returned /\ stepLast.result.some) => Len(stepLast.w) = 0

\* a Pending step that passed the empty data block of the previous object
C10_Witness ==
    /\ stepLast.called /\ stepLast.returned /\ ~stepLast.result.some
    /\ fut.pc = "Suspended" /\ fut.k > 0 /\ fut.ph = 0 /\ fut.i = 0
    /\ objects[fut.k].data = << >>
    /\ Len(stepLast.w) = 1

(***************************************************************************)
(* SpecHeader: the first read call on a serializer built from one object   *)
(* whose data length lies at a limit of the one-byte or two-byte length    *)
(***************************************************************************)
\* data lengths around 2^8 and 2^16
EdgeLens == {0, 1, 254, 255, 256, 65534, 65535, 65536}

\* a data block of n bytes
ByteData(n) == [j \in 1..n |-> j % 256]

InitHeader ==
    /\ who \in {"async", "sync"}
    /\ \E t \in TypeVals, n \in EdgeLens : Constructed(<< Object(t, ByteData(n)) >>)
    /\ bufLen = 0 /\ untilZero = FALSE /\ pc = "caller" /\ buf = << >>
    /\ tK = 0

HeaderAsyncRead == ~aLast.called /\ AsyncRead

HeaderSyncRead == ~sLast.called /\ SyncRead

NextHeader == HeaderAsyncRead \/ HeaderSyncRead

SpecHeader == InitHeader /\ [][NextHeader]_vars

\* the u16 a little-endian byte pair stands for
from_le_bytes(lo, hi) == lo + 256 * hi

\* C11 (as claimed): in every encoded record the two-byte little-endian length
\* field equals data.length + 1, whatever the data length.
C11_LengthFieldIsDataLenPlusOne ==
    /\ (aLast.called /\ aLast.ret >= 2)
          => from_le_bytes(aOut[1], aOut[2]) = Len(objects[1].data) + 1
    /\ (sLast.called /\ sLast.ret >= 2)
          => from_le_bytes(sOut[1], sOut[2]) = Len(objects[1].data) + 1

(***************************************************************************)
(* SpecTick: a tick loop calling enable, run and sleeping, in any order    *)
(***************************************************************************)
InitTick ==
    /\ who = "tick"
    /\ Constructed(<< >>)
    /\ bufLen = 0 /\ untilZero = FALSE /\ pc = "caller" /\ buf = << >>
    /\ tK = 0

serializerVars == << objects, asyncVars, syncVars, mainVars, testVars >>

\* CallbackDrivenModule::enable
EnableCall(value) ==
    /\ panicked = "none"
    /\ init_cmd' = value
    /\ UNCHANGED << who, serializerVars, panicked, running, sensor_data, db_value,
                    task, runLast, seen >>

Enable == \E value \in BOOLEAN : EnableCall(value)

\* CallbackDrivenModule::run with Database::store_value
Run ==
    /\ panicked = "none"
    /\ LET p  == task_poll(task, SharedData(init_cmd, running, sensor_data))
           r  == poll_once(p)
           tk == take(p.data.sensor_data)
       IN  /\ panicked' = r.panic
           /\ runLast' = [called |-> TRUE, returned |-> (r.panic = "none"), polls |-> 1,
                          sample |-> p.data.sensor_data, dbBefore |-> db_value,
                          taskBefore |-> task.pc]
           /\ IF r.panic # "none"
              THEN UNCHANGED << task, running, sensor_data, db_value, seen >>
              ELSE /\ task' = r.fut
                   /\ running' = p.data.running
                   /\ sensor_data' = tk.slot
                   /\ db_value' = IF tk.value.some THEN tk.value.value ELSE db_value
                   /\ seen' = [seen EXCEPT
                         !.observed = @ \/ r.fut.pc \in {"DoInit", "Sampling", "Returned"},
                         !.everRunning = @ \/ (\E j \in 1..Len(p.rs) : p.rs[j]),
                         !.phases = IF r.fut.pc # task.pc THEN Append(@, r.fut.pc) ELSE @]
    /\ UNCHANGED << who, serializerVars, init_cmd >>

\* std::thread::sleep for d ticks (Instant::now() moves on by d)
SleepCall(d) ==
    /\ panicked = "none"
    /\ task.pc = "Sampling" => task.next_in - d >= 0 - MaxLag
    /\ task' = CASE task.pc = "DoInit" -> [task EXCEPT !.done_in = Max(0, @ - d)]
                 [] task.pc = "Sampling" -> [task EXCEPT !.next_in = @ - d]
                 [] OTHER -> task
    /\ seen' = [seen EXCEPT
          !.elapsed = IF seen.observed THEN Min(DoInitTicks, @ + d) ELSE @]
    /\ UNCHANGED << who, serializerVars, panicked, init_cmd, running, sensor_data,
                    db_value, runLast >>

Sleep == \E d \in 1..MaxSleep : SleepCall(d)

NextTick == Enable \/ Run \/ Sleep

SpecTick == InitTick /\ [][NextTick]_vars

(***************************************************************************)
(* SpecTickFair: the same tick loop, in which run keeps being called and   *)
(* time keeps advancing                                                    *)
(***************************************************************************)
SpecTickFair ==
    InitTick /\ [][NextTick]_vars /\ WF_vars(Run) /\ WF_vars(Sleep)

\* C18 (as claimed): whenever enable(true) has been called and stays set,
\* with run called again and again while time advances, running() becomes
\* true and a later run stores the sample in the sink.
C18_EnabledEventuallySamples ==
    []((init_cmd /\ []init_cmd) => <>(running /\ <>(db_value = SensorValue)))

\* C12: every run call polls the task once and then, exactly when the poll
\* left a sample in sensor_data, stores that sample into the database and
\* clears the slot; otherwise the database keeps its value. The database
\* only ever holds 0 or the sample 42.
C12_RunForwardsSample ==
    /\ db_value \in {0, SensorValue}
    /\ sensor_data = None
    /\ runLast.called =>
          /\ runLast.polls = 1
          /\ runLast.sample \in {None, Some(SensorValue)}
          /\ runLast.returned =>
                db_value = IF runLast.sample.some THEN runLast.sample.value
                           ELSE runLast.dbBefore

C12_Witness ==
    /\ runLast.called /\ runLast.returned
    /\ runLast.sample = Some(SensorValue)
    /\ runLast.dbBefore = 0 /\ db_value = SensorValue
    /\ sensor_data = None

\* position of a phase in the order of the task
PhaseRank(ph) ==
    CASE ph = "Unresumed" -> 0
      [] ph = "WaitEnable" -> 1
      [] ph = "DoInit" -> 2
      [] ph = "Sampling" -> 3
      [] OTHER -> 4

\* C13: the task passes wait-for-enable, timed initialization and periodic
\* sampling in this order; running() is false until a run call has seen
\* enable(true) and the init second has elapsed since; no sample reaches the
\* database before running() has become true.
C13_PhasesInOrder ==
    /\ \A j \in 1..(Len(seen.phases) - 1) :
          PhaseRank(seen.phases[j]) < PhaseRank(seen.phases[j + 1])
    /\ seen.everRunning => (seen.observed /\ seen.elapsed >= DoInitTicks)
    /\ running => (seen.everRunning /\ task.pc = "Sampling")
    /\ task.pc = "Sampling" => running
    /\ task.pc \in {"Unresumed", "WaitEnable"} => ~seen.observed
    /\ db_value = SensorValue => seen.everRunning

C13_Witness ==
    /\ seen.phases = << "Unresumed", "WaitEnable", "DoInit", "Sampling" >>
    /\ running /\ db_value = SensorValue
    /\ seen.elapsed = DoInitTicks

\* C19 (as claimed): run never polls the task future after the task has
\* completed.
C19_RunNeverStepsCompletedTask ==
    ~(runLast.called /\ runLast.taskBefore = "Returned")

(***************************************************************************)
(* The transition table of the explicit state machine, per emitted byte    *)
(***************************************************************************)
TableRow(byte, st, i) == [byte |-> byte, state |-> st, idx |-> i]

TableStep(obj, st, i) ==
    CASE st = St("Len1", 0) -> TableRow((Len(obj.data) + 1) % 256, St("Len2", 0), i)
      [] st = St("Len2", 0) -> TableRow(((Len(obj.data) + 1) \div 256) % 256, St("Type", 0), i)
      [] st = St("Type", 0) ->
           IF Len(obj.data) > 0 THEN TableRow(obj.object_type, St("Data", 0), i)
           ELSE TableRow(obj.object_type, St("Len1", 0), i + 1)
      [] OTHER ->
           IF st.offset < Len(obj.data) - 1
           THEN TableRow(obj.data[st.offset + 1], St("Data", st.offset + 1), i)
           ELSE TableRow(obj.data[st.offset + 1], St("Len1", 0), i + 1)

\* n transitions of the table from (st, i); out collects the emitted bytes
RECURSIVE TableRun(_, _, _, _, _)
TableRun(objs, st, i, n, out) ==
    IF n = 0 THEN [state |-> st, idx |-> i, out |-> out, ok |-> TRUE]
    ELSE IF i >= Len(objs) \/ (st.tag = "Data" /\ st.offset >= Len(objs[i + 1].data))
    THEN [state |-> st, idx |-> i, out |-> out, ok |-> FALSE]
    ELSE LET row == TableStep(objs[i + 1], st, i)
         IN  TableRun(objs, row.state, row.idx, n - 1, Append(out, row.byte))

\* C14: a SyncSerializer::read call that returns n has taken exactly n
\* transitions of the table (none when n = 0), emitting the table's bytes:
\* Len1 -> Len2 -> Type -> Data(0) or next object, Data(off) -> Data(off+1)
\* or next object.
C14_TransitionTable ==
    (sLast.called /\ sLast.returned) =>
        LET r == TableRun(objects, sLast.pre[1], sLast.pre[2], sLast.ret, << >>)
        IN  /\ r.ok
            /\ state = r.state
            /\ idx = r.idx
            /\ SubSeq(sLast.buf, 1, sLast.ret) = r.out

C14_Witness ==
    /\ sLast.called /\ sLast.returned /\ sLast.ret >= 2
    /\ sLast.pre[1].tag = "Data"
    /\ state.tag = "Len2"
    /\ idx = sLast.pre[2] + 1

\* C15: always 0 <= idx <= objects.len(); at idx = objects.len() the state is
\* Len1; in state Data(off) with idx < objects.len(), off < len(data) of the
\* current object; no indexing goes out of range.
C15_StateDesignatesNextByte ==
    /\ 0 <= idx /\ idx <= Len(objects)
    /\ idx = Len(objects) => state = St("Len1", 0)
    /\ (idx < Len(objects) /\ state.tag = "Data")
          => (0 <= state.offset /\ state.offset < Len(objects[idx + 1].data))
    /\ state.tag # "Data" => state.offset = 0
    /\ panicked # "index_out_of_bounds"

C15_Witness ==
    /\ idx < Len(objects) /\ state.tag = "Data"
    /\ state.offset = Len(objects[idx + 1].data) - 1
    /\ state.offset > 0

\* number of stream bytes before the record of objs[j] (j counted from 1)
RecordStart(objs, j) == StreamLen(SubSeq(objs, 1, j - 1))

\* what C16 says of the output out so far and the j-th object, whose data is empty
EmptyRecord(out, j) ==
    LET off == RecordStart(objects, j)
    IN  /\ Len(out) >= off + 3
              => SubSeq(out, off + 1, off + 3) = << 1, 0, objects[j].object_type >>
        /\ (j < Len(objects) /\ Len(out) >= off + 3 + Len(EncodeObject(objects[j + 1])))
              => SubSeq(out, off + 4, off + 3 + Len(EncodeObject(objects[j + 1])))
                    = EncodeObject(objects[j + 1])

\* C16: an object with empty data is emitted as the three bytes [1, 0, type]
\* by both serializers, and right after the type byte each serializer stands
\* at the first byte of the next record (or at the end): the next poll
\* writes that byte, and idx has moved on with the state back at Len1.
C16_EmptyDataRecord ==
    \A j \in 1..Len(objects) :
        objects[j].data = << >> =>
            /\ EmptyRecord(aOut, j)
            /\ EmptyRecord(sOut, j)
            /\ (who = "sync" /\ Len(sOut) = RecordStart(objects, j) + 3)
                  => (idx = j /\ state = St("Len1", 0))
            /\ (who = "async" /\ Len(aOut) = RecordStart(objects, j) + 3
                    /\ fut.pc # "Returned")
                  => LET p == polling_serializer(objects, fut)
                     IN  IF j < Len(objects)
                         THEN p.w = << EncodeObject(objects[j + 1])[1] >>
                         ELSE p.ready /\ p.w = << >>
            /\ (who = "async" /\ Len(aOut) = RecordStart(objects, j) + 3
                    /\ fut.pc = "Returned")
                  => j = Len(objects)

C16_Witness ==
    /\ who = "sync"
    /\ objects = << Object(7, << >>), Object(0, Iota(1)) >>
    /\ sOut = << 1, 0, 7, 2, 0, 0, 1 >>

\* C17: when a step of the serializer future returns None (Pending), the
\* register read that follows it yields the byte written during that step;
\* the bytes so read are all the bytes written, once each, in write order.
C17_RegisterHoldsStepByte ==
    who = "serializer" =>
        /\ aOut = stepLast.written
        /\ (stepLast.called /\ stepLast.returned /\ ~stepLast.result.some) =>
              /\ stepLast.w # << >>
              /\ reg = stepLast.w[Len(stepLast.w)]
              /\ aOut # << >> /\ aOut[Len(aOut)] = reg

\* a Pending step whose byte differs from the one the register held before
C17_Witness ==
    /\ who = "serializer"
    /\ stepLast.called /\ stepLast.returned /\ ~stepLast.result.some
    /\ Len(aOut) >= 4
    /\ aOut[Len(aOut)] # aOut[Len(aOut) - 1]
    /\ reg = aOut[Len(aOut)]

\* C20: reading either serializer with a buffer of one fixed size >= 1 until
\* a call returns fewer bytes than the buffer holds ends for every object
\* list: every turn of a loop either leaves the loop or adds a whole buffer
\* to an output that never exceeds the stream length, and nothing panics.
\* The bytes returned add up to the sum of len(data) + 3 over the objects;
\* with no objects the first call returns 0.
C20_DrainLoopTerminates ==
    /\ [][/\ pc = "async_loop" =>
                \/ pc' = "sync_loop"
                \/ bufLen >= 1 /\ Len(aOut') = Len(aOut) + bufLen
          /\ pc = "sync_loop" =>
                \/ pc' = "asserts"
                \/ bufLen >= 1 /\ Len(sOut') = Len(sOut) + bufLen]_vars
    /\ [](/\ Len(aOut) <= StreamLen(objects) /\ Len(sOut) <= StreamLen(objects)
          /\ AsyncLoopLeft => (aLast.called /\ Len(aOut) = StreamLen(objects))
          /\ SyncLoopLeft => (sLast.called /\ Len(sOut) = StreamLen(objects))
          /\ (objects = << >> /\ aLast.called) => aLast.ret = 0
          /\ (objects = << >> /\ sLast.called) => sLast.ret = 0
          /\ panicked = "none")

\* both loops left where the stream is a whole number of buffers, so that the
\* last call of each loop returned 0
C20_Witness ==
    /\ SyncLoopLeft
    /\ Len(objects) = 2
    /\ StreamLen(objects) = 2 * bufLen
    /\ Len(aOut) = StreamLen(objects) /\ Len(sOut) = StreamLen(objects)
    /\ aLast.ret = 0 /\ sLast.ret = 0

====
